---- MODULE Spec2Model ----
(***************************************************************************)
(* Model of the dialogue-to-speech pipeline of src/local_tts.py            *)
(* (LocalTTSService): parsing, scene detection, character profiling,       *)
(* voice assignment, the ChatTTS -> edge-tts backend chain and audio       *)
(* assembly, together with the files the job leaves on disk.               *)
(*                                                                         *)
(* Text is modelled as a sequence of phrases; "kw in text" is the          *)
(* substring test of the code, decided per phrase by the table Has.        *)
(***************************************************************************)
EXTENDS Integers, Sequences, FiniteSets, TLC

\* ------------------------------------------------------------------ bounds
\* Longest script, in lines, that a job is called with.
MaxLines == 2

\* ------------------------------------------------------------ input values
None == "None"
NoMark == "nomark"

\* The text of a line that is empty once stripped.
Blank == ""

\* Speaker markers that the regex of _parse_dialogue accepts and that occur
\* in the scripts of this model.
Labels == {"M", "W"}

\* The lines scripts are made of: the marker the regex matched (NoMark when
\* the line does not match) and the text after the marker.
ScriptLines ==
    { [mark |-> "M", text |-> "hello"],
      [mark |-> "W", text |-> "hello"],
      [mark |-> NoMark, text |-> "hello"],
      [mark |-> "M", text |-> "good morning, class"],
      [mark |-> "W", text |-> "how much is the price"] }

RECURSIVE SeqsUpTo(_, _)
SeqsUpTo(S, n) ==
    IF n = 0 THEN {<<>>}
    ELSE LET shorter == SeqsUpTo(S, n - 1)
         IN  shorter \cup {Append(s, x) : s \in {t \in shorter : Len(t) = n - 1}, x \in S}

Scripts == SeqsUpTo(ScriptLines, MaxLines)

\* A voice id a caller can pass that is none of the table's voices.
OverrideVoice == "voiceX"

\* voice_map arguments: absent, or an explicit map for one label.
VoiceMaps == {<< >>} \cup {[l \in {"M"} |-> OverrideVoice]}

\* ------------------------------------------------------- tables of the code
SPEAKER_VOICES ==
    [ M_Adult_Deep         |-> "en-US-GuyNeural",
      M_Adult_Warm         |-> "en-US-ChristopherNeural",
      M_Adult_Professional |-> "en-US-BrianNeural",
      W_Adult_Calm         |-> "en-US-AriaNeural",
      W_Adult_Friendly     |-> "en-US-JennyNeural",
      W_Adult_Professional |-> "en-US-MichelleNeural",
      M_Young_Casual       |-> "en-US-EricNeural",
      M_Young_Energetic    |-> "en-US-JasonNeural",
      W_Young_Casual       |-> "en-US-MichelleNeural",
      W_Young_Sweet        |-> "en-US-AriaNeural" ]

\* Scenes in the iteration order of the dict CONTEXT_PATTERNS.
SceneOrder == <<"school", "medical", "shopping", "family", "restaurant">>

CONTEXT_PATTERNS ==
    [ school     |-> {"class", "teacher", "student", "homework", "school", "exam",
                      "lesson", "mr.", "ms.", "professor", "finish", "easy", "learn"},
      medical    |-> {"doctor", "patient", "medicine", "hospital", "pain", "symptom",
                      "fever", "headache"},
      shopping   |-> {"buy", "sell", "price", "shop", "store", "how much", "dollars",
                      "cashier"},
      family     |-> {"mom", "dad", "parent", "child", "son", "daughter", "home"},
      restaurant |-> {"order", "menu", "waiter", "waitress", "food", "drink", "table"} ]

teacher_speaking_patterns ==
    {"good morning, class", "good afternoon, class", "good evening, class",
     "let me explain", "let's look at", "pay attention", "listen carefully",
     "you should", "you need to", "i want you to", "turn to", "open your",
     "today we'll", "today we are", "we'll learn", "we are going to"}

student_talking_about_teacher ==
    {"mr. ", "ms. ", "mrs. ", "professor ", "my teacher", "our teacher",
     "my professor", "our professor"}

\* Has(kw, p): the lowercased phrase p contains kw as a substring.
Has(kw, p) ==
    \/ kw = p
    \/ p = "good morning, class" /\ kw = "class"
    \/ p = "how much is the price" /\ kw \in {"how much", "price"}
    \/ p = "mom, i am home" /\ kw \in {"mom", "home"}
    \/ p = "mr. smith is strict" /\ kw \in {"mr.", "mr. "}
    \/ p = "i finished my homework" /\ kw \in {"finish", "home", "homework"}
    \/ p = "open your books" /\ kw = "open your"

\* kw in text, for a text that is the join of the phrases of the sequence.
In(kw, text) == \E i \in 1..Len(text) : Has(kw, text[i])

AnyIn(kws, text) == \E kw \in kws : In(kw, text)

\* An absent or empty dict: both are falsy where the code tests them.
NoMap == << >>

\* ---------------------------------------------------------- _parse_dialogue
RECURSIVE ParseLoop(_, _, _, _, _)
ParseLoop(lines, i, current_speaker, current_text, dialogue_parts) ==
    LET flushed == IF current_speaker # None /\ current_text # << >>
                   THEN Append(dialogue_parts,
                               [speaker |-> current_speaker, text |-> current_text])
                   ELSE dialogue_parts
    IN  IF i > Len(lines) THEN flushed
        ELSE IF lines[i].mark = NoMark /\ lines[i].text = Blank
             THEN ParseLoop(lines, i + 1, current_speaker, current_text, dialogue_parts)
        ELSE IF lines[i].mark # NoMark
             THEN ParseLoop(lines, i + 1, lines[i].mark, <<lines[i].text>>, flushed)
        ELSE IF current_speaker # None
             THEN ParseLoop(lines, i + 1, current_speaker,
                            Append(current_text, lines[i].text), dialogue_parts)
        ELSE ParseLoop(lines, i + 1, current_speaker, current_text, dialogue_parts)

\* _parse_dialogue without the flush of the turn that is open at the end.
_parse_dialogue_drops_last(lines) ==
    LET parts == ParseLoop(lines, 1, None, << >>, << >>)
    IN  SubSeq(parts, 1, Len(parts) - 1)

_parse_dialogue(lines) == ParseLoop(lines, 1, None, << >>, << >>)

\* The text of a script, and the text of the script that _generate_with_chatts
\* rebuilds from the turns ("\n".join of "speaker: text").
ScriptText(lines) == [i \in 1..Len(lines) |-> lines[i].text]

RECURSIVE JoinTexts(_, _)
JoinTexts(parts, i) ==
    IF i > Len(parts) THEN << >> ELSE parts[i].text \o JoinTexts(parts, i + 1)

\* ---------------------------------------------------------- _detect_context
keyword_count(context, text) ==
    Cardinality({kw \in CONTEXT_PATTERNS[context] : In(kw, text)})

RECURSIVE DetectFrom(_, _)
DetectFrom(text, k) ==
    IF k > Len(SceneOrder) THEN "general"
    ELSE LET context == SceneOrder[k]
             threshold == IF context = "school" THEN 1 ELSE 2
         IN  IF keyword_count(context, text) >= threshold THEN context
             ELSE DetectFrom(text, k + 1)

\* Variant of _detect_context: the loop starts after the first scene.
_detect_context_skips_school(text) == DetectFrom(text, 2)

_detect_context(text) == DetectFrom(text, 1)

\* ------------------------------------------------ _assign_voices_by_profiles
map_profile_to_voice(profile) ==
    IF profile.age \in {"child", "teenager", "young_adult"}
    THEN IF profile.gender = "male" THEN "M_Young_Casual" ELSE "W_Young_Casual"
    ELSE IF profile.gender = "male"
         THEN IF profile.emotion \in {"professional", "formal"}
              THEN "M_Adult_Professional" ELSE "M_Adult_Warm"
         ELSE IF profile.emotion \in {"professional", "formal"}
              THEN "W_Adult_Professional" ELSE "W_Adult_Friendly"

_assign_voices_by_profiles(speaker_profiles) ==
    [s \in DOMAIN speaker_profiles |-> SPEAKER_VOICES[map_profile_to_voice(speaker_profiles[s])]]

\* ------------------------------------------------- _assign_voices_by_context
Speakers(parts) == {parts[i].speaker : i \in 1..Len(parts)}

YoungCategory(speaker) ==
    IF speaker \in {"M", "Man", "Boy"} THEN "M_Young_Casual"
    ELSE IF speaker \in {"W", "Woman", "Girl"} THEN "W_Young_Casual"
    ELSE "M_Young_Casual"

TeacherCategory(speaker) ==
    IF speaker \in {"M", "Man"} THEN "M_Adult_Professional"
    ELSE IF speaker \in {"W", "Woman"} THEN "W_Adult_Professional"
    ELSE "M_Adult_Professional"

\* The loop over the turns of the branch "elif has_teacher_speaking".
RECURSIVE TeacherLoop(_, _, _)
TeacherLoop(parts, i, cats) ==
    IF i > Len(parts) THEN cats
    ELSE LET speaker == parts[i].speaker
         IN  IF AnyIn(teacher_speaking_patterns, parts[i].text)
             THEN TeacherLoop(parts, i + 1, (speaker :> TeacherCategory(speaker)) @@ cats)
             ELSE IF speaker \notin DOMAIN cats
             THEN TeacherLoop(parts, i + 1, (speaker :> YoungCategory(speaker)) @@ cats)
             ELSE TeacherLoop(parts, i + 1, cats)

SchoolCategories(parts) ==
    LET full_text == JoinTexts(parts, 1)
        has_teacher_speaking == AnyIn(teacher_speaking_patterns, full_text)
        student_mentioning_teacher == AnyIn(student_talking_about_teacher, full_text)
    IN  IF student_mentioning_teacher /\ ~has_teacher_speaking
        THEN [s \in Speakers(parts) |-> YoungCategory(s)]
        ELSE IF has_teacher_speaking THEN TeacherLoop(parts, 1, NoMap)
        ELSE [s \in Speakers(parts) |-> YoungCategory(s)]

MedicalCategory(speaker) ==
    IF speaker \in {"M", "Man"} THEN "M_Adult_Professional"
    ELSE IF speaker \in {"W", "Woman"} THEN "W_Adult_Friendly"
    ELSE "M_Adult_Warm"

\* The shopping and restaurant branches name a key SPEAKER_VOICES lacks.
ServiceCategory(speaker) ==
    IF speaker \in {"M", "Man"} THEN "M_Adult_Friendly"
    ELSE IF speaker \in {"W", "Woman"} THEN "W_Adult_Friendly"
    ELSE "W_Adult_Friendly"

RECURSIVE FamilyLoop(_, _, _)
FamilyLoop(parts, i, cats) ==
    IF i > Len(parts) THEN cats
    ELSE LET speaker == parts[i].speaker
             cat == IF i = 1 THEN "M_Adult_Warm"
                    ELSE IF AnyIn({"mom", "dad", "parent"}, parts[i].text)
                         THEN "W_Young_Casual" ELSE "W_Adult_Friendly"
         IN  FamilyLoop(parts, i + 1, (speaker :> cat) @@ cats)

GeneralCategory(speaker) ==
    IF speaker \in {"M", "Man", "Boy"} THEN "M_Adult_Warm"
    ELSE IF speaker \in {"W", "Woman", "Girl"} THEN "W_Adult_Friendly"
    ELSE "M_Adult_Warm"

\* The category, a key of SPEAKER_VOICES, that each branch looks up per speaker.
ContextCategories(parts, context) ==
    CASE context = "school"     -> SchoolCategories(parts)
      [] context = "medical"    -> [s \in Speakers(parts) |-> MedicalCategory(s)]
      [] context = "shopping"   -> [s \in Speakers(parts) |-> ServiceCategory(s)]
      [] context = "family"     -> FamilyLoop(parts, 1, NoMap)
      [] context = "restaurant" -> [s \in Speakers(parts) |-> ServiceCategory(s)]
      [] OTHER                  -> [s \in Speakers(parts) |-> GeneralCategory(s)]

\* The result of the call: raised is the KeyError of a lookup of a missing key.
_assign_voices_by_context(parts, context, custom_voice_map) ==
    IF custom_voice_map # NoMap
    THEN [raised |-> FALSE, voices |-> custom_voice_map]
    ELSE LET cats == ContextCategories(parts, context)
         IN  IF \E s \in DOMAIN cats : cats[s] \notin DOMAIN SPEAKER_VOICES
             THEN [raised |-> TRUE, voices |-> NoMap]
             ELSE [raised |-> FALSE, voices |-> [s \in DOMAIN cats |-> SPEAKER_VOICES[cats[s]]]]

\* ------------------------------------------- _analyze_characters_with_ai
\* What the profiling call can come back with: Failed stands for a missing key
\* or library, a network error or an unparseable response; otherwise the
\* parsed JSON object, whose entries may lack a field.
Missing == "missing"
Failed == << >>

RawProfiles ==
    { [age |-> "adult", gender |-> "female", role |-> "teacher", emotion |-> "professional"],
      [age |-> "adult", gender |-> Missing, role |-> "teacher", emotion |-> "casual"] }

AIResponses ==
    {Failed} \cup UNION {[S -> RawProfiles] : S \in (SUBSET Labels) \ {{}}}

\* Variant of ValidProfiles: an entry is kept when it has "age".
ValidProfiles_age_only(profiles) ==
    LET kept == {s \in DOMAIN profiles : profiles[s].age # Missing}
    IN  [s \in kept |-> profiles[s]]

\* The validation loop: keep the entries that have both "age" and "gender".
ValidProfiles(profiles) ==
    LET kept == {s \in DOMAIN profiles :
                    profiles[s].age # Missing /\ profiles[s].gender # Missing}
    IN  [s \in kept |-> profiles[s]]

\* ------------------------------------------------------------------- state
\* Threads of the process that use the service at the same time.
NThreads == 2
Threads == 1..NThreads

Methods == {"chatts_lib", "edge_tts", "espeak", "none"}

VARIABLES
    tts_service,      \* the module singleton: "unset", or self.method once built
    pc,               \* position of the job
    script,           \* arguments of dialogue_to_speech
    voice_map,
    out_mp3,          \* output_path ends with ".mp3"
    dialogue_parts,   \* parsed turns
    context,          \* scene detected from the script
    speaker_profiles, \* accepted AI profiles, NoMap when there are none
    speaker_voices,   \* the voice assignment
    backend,          \* backend now synthesizing
    started,          \* backends started so far, in order
    chatts_context,   \* scene detected again by _generate_with_chatts
    speaker_embs,     \* ChatTTS: speaker -> seed of its embedding
    idx,              \* turns consumed by the running loop
    segments,         \* all_segments / audio_segments of the running backend
    assembled,        \* the segment list that was handed to concatenation
    disk,             \* files that exist
    result,           \* the returned tuple
    failed,           \* per-turn failures seen: backend and kind
    ran               \* stages the job has entered

\* The process: threads that call get_local_tts and run a ChatTTS job, the
\* module global _tts_service (tts_service above) and torch's global
\* random number generator.
VARIABLES
    thread_pc,        \* position of each thread
    thread_method,    \* self.method of the service the thread constructed
    thread_i,         \* index of the enumerate loop over the speakers
    thread_embs,      \* speaker_embs of the thread's job
    detect_calls,     \* runs of _detect_method
    load_calls,       \* runs of chat.load
    torch_rng         \* the generator: last seed set and draws since

procVars == <<thread_pc, thread_method, thread_i, thread_embs, detect_calls,
              load_calls, torch_rng>>

jobVars == <<pc, script, voice_map, out_mp3, dialogue_parts, context,
             speaker_profiles, speaker_voices, backend, started, chatts_context,
             speaker_embs, idx, segments, assembled, disk, result, failed, ran>>

\* The account side of the application: the quota rows and the clock that
\* the quota functions read, the question-generation client, the payment
\* orders and the generation history of one homework.
VARIABLES
    quotas,           \* user -> row of the quotas table
    today,            \* the day datetime.now() and date.today() return
    consume_result,   \* what the last consume_user_quota returned
    reset_calls,      \* runs of reset_all_daily_quotas on the current day
    ai_pc,            \* position of _call_ai
    ai_max_retries,   \* its max_retries argument
    ai_responses,     \* what the client gave on each call so far
    ai_result,        \* the value _call_ai returned
    orders,           \* order_no -> row of the orders table
    pay_pc,           \* position of each process_payment_success call
    credited,         \* order_no -> number of times its credit was applied
    history,          \* generation_history rows of the homework, by id
    last_call         \* homework -> id of the row the last call created or selected

quotaVars == <<quotas, today, consume_result, reset_calls>>

aiVars == <<ai_pc, ai_max_retries, ai_responses, ai_result>>

payVars == <<orders, pay_pc, credited>>

histVars == <<history, last_call>>

svcVars == <<quotaVars, aiVars, payVars, histVars>>

vars == <<tts_service, jobVars, procVars, svcVars>>

Pending == [returned |-> FALSE, success |-> FALSE, output_path |-> None]
Returned(success, path) == [returned |-> TRUE, success |-> success, output_path |-> path]

\* Files: the output path, the sibling .wav of ChatTTS, the concat list file
\* and the per-turn temporary files; st is "data", "partial" or "empty".
File(kind, n, st) == [kind |-> kind, n |-> n, st |-> st]
Exists(d, kind, n) == \E f \in d : f.kind = kind /\ f.n = n
Size(d, kind, n) == IF \E f \in d : f.kind = kind /\ f.n = n /\ f.st # "empty" THEN 1 ELSE 0
Remove(d, kind, n) == {f \in d : ~(f.kind = kind /\ f.n = n)}
Write(d, kind, n, st) == Remove(d, kind, n) \cup {File(kind, n, st)}
RemoveTemp(d) == {f \in d : f.kind # "tmp"}

\* ---------------------------------------------------------------- accounts
\* Registered users; each has its quotas row from registration on.
Users == {"u1", "u2"}

\* QuotaSettings.free_daily_limit.
free_daily_limit == 10

\* PaymentConfig: uses in a package and days of a monthly card.
PACKAGE_COUNT == 100
MONTHLY_DAYS == 30

\* A nullable datetime column: NULL, or the day it holds.
NULL == << >>
At(day) == <<day>>

\* create_user_quota: the row of a new user, made on the day now.
create_user_quota(now) ==
    [free_used_today |-> 0, free_reset_date |-> now, purchased_count |-> 0,
     subscription_expires_at |-> NULL]

\* quota.subscription_expires_at and quota.subscription_expires_at > datetime.now()
is_subscriber(quota, now) ==
    quota.subscription_expires_at # NULL /\ quota.subscription_expires_at[1] > now

\* check_daily_reset_needed; every row has a reset date.
check_daily_reset_needed(quota, now) == now > quota.free_reset_date

\* reset_daily_quota.
reset_daily_quota(quota, now) ==
    [quota EXCEPT !.free_used_today = 0, !.free_reset_date = now]

\* can_consume_quota: looks at the stored row as it is.
can_consume_quota(quota, now) ==
    \/ is_subscriber(quota, now)
    \/ quota.purchased_count > 0
    \/ quota.free_used_today < free_daily_limit

Consumed(quota, success, consume_type, remaining) ==
    [quota |-> quota, success |-> success, consume_type |-> consume_type,
     remaining |-> remaining]

\* consume_quota with the purchased uses taken before the subscription.
consume_quota_purchased_first(quota, now, free_limit) ==
    LET q == IF check_daily_reset_needed(quota, now)
             THEN reset_daily_quota(quota, now) ELSE quota
    IN  IF q.purchased_count > 0
        THEN Consumed([q EXCEPT !.purchased_count = @ - 1], TRUE, "purchased",
                      q.purchased_count - 1)
        ELSE IF is_subscriber(q, now)
        THEN Consumed(q, TRUE, "subscription", -1)
        ELSE IF q.free_used_today < free_limit
        THEN Consumed([q EXCEPT !.free_used_today = @ + 1], TRUE, "free",
                      free_limit - (q.free_used_today + 1))
        ELSE Consumed(q, FALSE, "insufficient", 0)

\* consume_quota: the lazy daily reset, then subscription, purchased, free.
consume_quota(quota, now, free_limit) ==
    LET q == IF check_daily_reset_needed(quota, now)
             THEN reset_daily_quota(quota, now) ELSE quota
    IN  IF is_subscriber(q, now)
        THEN Consumed(q, TRUE, "subscription", -1)
        ELSE IF q.purchased_count > 0
        THEN Consumed([q EXCEPT !.purchased_count = @ - 1], TRUE, "purchased",
                      q.purchased_count - 1)
        ELSE IF q.free_used_today < free_limit
        THEN Consumed([q EXCEPT !.free_used_today = @ + 1], TRUE, "free",
                      free_limit - (q.free_used_today + 1))
        ELSE Consumed(q, FALSE, "insufficient", 0)

\* add_purchased_count.
add_purchased_count(quota, count) == [quota EXCEPT !.purchased_count = @ + count]

\* set_subscription: an unexpired subscription is extended, else it runs
\* from now.
set_subscription(quota, now, days) ==
    [quota EXCEPT !.subscription_expires_at =
        IF is_subscriber(quota, now) THEN At(@[1] + days) ELSE At(now + days)]

\* The orders of the payment section: one package and one monthly card of u1.
OrderNos == {"ORD1", "ORD2"}
OrderType == [ORD1 |-> "package", ORD2 |-> "subscription"]

\* create_order: a pending order.
create_order(user_id, order_type) ==
    [user_id |-> user_id, type |-> order_type, status |-> "pending"]

\* Requests that call process_payment_success and may run at the same time:
\* the payment callback, a repeated delivery of it and the order-status query.
Callers == {"payment_callback", "payment_callback_again", "get_order_status"}

\* The homeworks that have a generation history.
Homeworks == {"hw1", "hw2"}

\* A request that is not inside process_payment_success.
NoCall == [at |-> "idle", order_no |-> None]

Init ==
    /\ tts_service = "unset"
    /\ pc = "idle"
    /\ script = << >>
    /\ voice_map = NoMap
    /\ out_mp3 = TRUE
    /\ dialogue_parts = << >>
    /\ context = None
    /\ speaker_profiles = NoMap
    /\ speaker_voices = NoMap
    /\ backend = None
    /\ started = << >>
    /\ chatts_context = None
    /\ speaker_embs = NoMap
    /\ idx = 0
    /\ segments = << >>
    /\ assembled = << >>
    /\ disk = {}
    /\ result = Pending
    /\ failed = {}
    /\ ran = {}
    /\ thread_pc = [t \in Threads |-> "start"]
    /\ thread_method = [t \in Threads |-> None]
    /\ thread_i = [t \in Threads |-> 0]
    /\ thread_embs = [t \in Threads |-> NoMap]
    /\ detect_calls = 0
    /\ load_calls = 0
    /\ torch_rng = [seed |-> 0, draws |-> 0]
    /\ quotas = [u \in Users |-> create_user_quota(0)]
    /\ today = 0
    /\ consume_result = [user |-> None, success |-> FALSE, consume_type |-> None,
                         remaining |-> 0]
    /\ reset_calls = 0
    /\ ai_pc = "idle"
    /\ ai_max_retries = 0
    /\ ai_responses = << >>
    /\ ai_result = None
    /\ orders = [o \in OrderNos |-> create_order("u1", OrderType[o])]
    /\ pay_pc = [c \in Callers |-> NoCall]
    /\ credited = [o \in OrderNos |-> 0]
    /\ history = << >>
    /\ last_call = [h \in Homeworks |-> 0]

\* get_local_tts: the first call builds the service and probes the method.
get_local_tts(m) ==
    /\ tts_service = "unset"
    /\ tts_service' = m
    /\ UNCHANGED <<pc, script, voice_map, out_mp3, dialogue_parts, context,
                   speaker_profiles, speaker_voices, backend, started, chatts_context,
                   speaker_embs, idx, segments, assembled, disk, result, failed, ran>>
    /\ UNCHANGED <<procVars, svcVars>>

\* Variant of dialogue_to_speech: no early return for a script without turns.
dialogue_to_speech_always_analyzes(s, vm, mp3) ==
    /\ tts_service # "unset"
    /\ pc = "idle"
    /\ script' = s
    /\ voice_map' = vm
    /\ out_mp3' = mp3
    /\ dialogue_parts' = _parse_dialogue(s)
    /\ pc' = "analyze"
    /\ context' = _detect_context(ScriptText(s))
    /\ ran' = ran \cup {"classify"}
    /\ UNCHANGED <<tts_service, speaker_profiles, speaker_voices, backend, started,
                   chatts_context, speaker_embs, idx, segments, assembled, disk,
                   result, failed>>
    /\ UNCHANGED <<procVars, svcVars>>

\* dialogue_to_speech up to the profiling call: parse, then either hand over
\* to text_to_speech or detect the scene.
dialogue_to_speech(s, vm, mp3) ==
    /\ tts_service # "unset"
    /\ pc = "idle"
    /\ script' = s
    /\ voice_map' = vm
    /\ out_mp3' = mp3
    /\ dialogue_parts' = _parse_dialogue(s)
    /\ IF dialogue_parts' = << >>
       THEN /\ pc' = "text_to_speech"
            /\ backend' = "plain"
            /\ ran' = ran \cup {"plain"}
            /\ UNCHANGED context
       ELSE /\ pc' = "analyze"
            /\ context' = _detect_context(ScriptText(s))
            /\ ran' = ran \cup {"classify"}
            /\ UNCHANGED backend
    /\ UNCHANGED <<tts_service, speaker_profiles, speaker_voices, started,
                   chatts_context, speaker_embs, idx, segments, assembled, disk,
                   result, failed>>
    /\ UNCHANGED <<procVars, svcVars>>

\* ------------------------------------------------------------- subprocesses
\* What one run of a synthesis command (edge-tts, espeak) leaves at the path:
\* the audio, an empty file, a part of the audio when it is killed on the
\* timeout, or nothing; and the success flag _edge_tts derives from it.
EdgeOutcomes == {"ok", "error", "empty", "timeout"}

EdgeTtsDisk(d, kind, n, o) ==
    CASE o = "ok"      -> Write(d, kind, n, "data")
      [] o = "empty"   -> Write(d, kind, n, "empty")
      [] o = "timeout" -> Write(d, kind, n, "partial")
      [] OTHER         -> d

EdgeTtsSuccess(d, kind, n, o) ==
    o # "timeout" /\ Exists(d, kind, n) /\ Size(d, kind, n) > 0

\* text_to_speech: the plain path, on the backend the probe selected.
text_to_speech(o) ==
    /\ pc = "text_to_speech"
    /\ pc' = "done"
    /\ CASE tts_service = "chatts_lib" ->
              \* _chatts_lib: writes the file last, any exception is a failure
              IF o = "ok"
              THEN disk' = Write(disk, "out", 0, "data") /\ result' = Returned(TRUE, "out")
              ELSE disk' = disk /\ result' = Returned(FALSE, None)
         [] tts_service = "edge_tts" ->
              /\ disk' = EdgeTtsDisk(disk, "out", 0, o)
              /\ result' = IF EdgeTtsSuccess(disk', "out", 0, o)
                           THEN Returned(TRUE, "out") ELSE Returned(FALSE, None)
         [] tts_service = "espeak" ->
              \* _espeak: returncode == 0 and the file exists, whatever its size
              /\ disk' = EdgeTtsDisk(disk, "out", 0, o)
              /\ result' = IF o \in {"ok", "empty"} /\ Exists(disk', "out", 0)
                           THEN Returned(TRUE, "out") ELSE Returned(FALSE, None)
         [] OTHER ->
              disk' = disk /\ result' = Returned(FALSE, None)
    /\ UNCHANGED <<tts_service, script, voice_map, out_mp3, dialogue_parts, context,
                   speaker_profiles, speaker_voices, backend, started, chatts_context,
                   speaker_embs, idx, segments, assembled, failed, ran>>
    /\ UNCHANGED <<procVars, svcVars>>

\* dialogue_to_speech from the profiling call to the choice of the backend:
\* profiles accepted -> assignment by profiles, else assignment by context;
\* an exception of the assignment is caught by the outer handler.
analyze_and_assign(response) ==
    /\ pc = "analyze"
    /\ speaker_profiles' = ValidProfiles(response)
    /\ LET byContext == _assign_voices_by_context(dialogue_parts, context, voice_map)
           raised == speaker_profiles' = NoMap /\ byContext.raised
       IN  /\ speaker_voices' = IF speaker_profiles' # NoMap
                                THEN _assign_voices_by_profiles(speaker_profiles')
                                ELSE byContext.voices
           /\ ran' = ran \cup {"profile", "assign"}
                         \cup (IF raised THEN {} ELSE {"synthesize"})
           /\ IF raised
              THEN /\ pc' = "done"
                   /\ result' = Returned(FALSE, None)
                   /\ UNCHANGED <<backend, started>>
              ELSE /\ result' = result
                   /\ IF tts_service = "chatts_lib"
                      THEN pc' = "chatts_load" /\ backend' = "chatts"
                           /\ started' = Append(started, "chatts")
                      ELSE pc' = "edge_turn" /\ backend' = "edge"
                           /\ started' = Append(started, "edge")
    /\ UNCHANGED <<tts_service, script, voice_map, out_mp3, dialogue_parts, context,
                   chatts_context, speaker_embs, idx, segments, assembled, disk, failed>>
    /\ UNCHANGED <<procVars, svcVars>>

\* ------------------------------------------------------ _generate_with_chatts
\* The except clause of _generate_with_chatts: start over on edge-tts.
FallbackToEdge ==
    /\ pc' = "edge_turn"
    /\ backend' = "edge"
    /\ started' = Append(started, "edge")
    /\ idx' = 0
    /\ segments' = << >>
    /\ chatts_context' = None
    /\ speaker_embs' = NoMap

\* list(set(...)): the speakers in the order the set happens to iterate.
Orders(S) == {f \in [1..Cardinality(S) -> S] : \A s \in S : \E i \in DOMAIN f : f[i] = s}

SeedOf(order, speaker) == 1000 + ((CHOOSE i \in DOMAIN order : order[i] = speaker) - 1) * 1000

\* Load the model, detect the scene again from the rebuilt script and give
\* every speaker its embedding.
chatts_load(loaded, order) ==
    /\ pc = "chatts_load"
    /\ IF loaded
       THEN /\ chatts_context' = _detect_context(JoinTexts(dialogue_parts, 1))
            /\ speaker_embs' = [s \in Speakers(dialogue_parts) |-> SeedOf(order, s)]
            /\ pc' = "chatts_infer"
            /\ idx' = 0
            /\ segments' = << >>
            /\ UNCHANGED <<backend, started>>
       ELSE FallbackToEdge
    /\ UNCHANGED <<tts_service, script, voice_map, out_mp3, dialogue_parts, context,
                   speaker_profiles, speaker_voices, assembled, disk, result, failed, ran>>
    /\ UNCHANGED <<procVars, svcVars>>

ChattsOutcomes == {"ok", "empty", "raise"}

\* One pass of the loop over the turns: chat.infer for turn idx + 1.
chatts_infer(o) ==
    /\ pc = "chatts_infer"
    /\ idx < Len(dialogue_parts)
    /\ LET k == idx + 1
           speaker == dialogue_parts[k].speaker
       IN  CASE o = "ok" ->
                  /\ segments' = Append(segments,
                         [turn |-> k, speaker |-> speaker, by |-> "chatts",
                          voice |-> speaker_embs[speaker]])
                  /\ idx' = k
                  /\ UNCHANGED <<pc, backend, started, failed, chatts_context, speaker_embs>>
             [] o = "empty" ->
                  \* logged as a warning, the loop goes on
                  /\ idx' = k
                  /\ failed' = failed \cup {[backend |-> "chatts", kind |-> "empty"]}
                  /\ UNCHANGED <<pc, backend, started, segments, chatts_context, speaker_embs>>
             [] OTHER ->
                  /\ failed' = failed \cup {[backend |-> "chatts", kind |-> "raise"]}
                  /\ FallbackToEdge
    /\ UNCHANGED <<tts_service, script, voice_map, out_mp3, dialogue_parts, context,
                   speaker_profiles, speaker_voices, assembled, disk, result, ran>>
    /\ UNCHANGED <<procVars, svcVars>>

FfmpegOutcomes == {"ok", "fail", "fail_partial", "timeout"}

\* After the loop: concatenate, write the WAV and convert it to the output.
chatts_save(o) ==
    /\ pc = "chatts_infer"
    /\ idx = Len(dialogue_parts)
    /\ IF segments = << >>
       THEN \* "ChatTTS 未生成任何音频" is raised
            /\ FallbackToEdge
            /\ UNCHANGED <<assembled, disk, result, ran>>
       ELSE /\ assembled' = segments
            /\ ran' = ran \cup {"assemble"}
            /\ IF ~out_mp3
               THEN /\ disk' = Write(disk, "out", 0, "data")
                    /\ result' = Returned(TRUE, "out")
                    /\ pc' = "done"
                    /\ UNCHANGED <<backend, started, idx, segments, chatts_context, speaker_embs>>
               ELSE LET wavWritten == Write(disk, "wav", 0, "data")
                    IN  IF o = "timeout"
                        THEN \* TimeoutExpired leaves through the except clause
                             /\ disk' = Write(wavWritten, "out", 0, "partial")
                             /\ result' = result
                             /\ FallbackToEdge
                        ELSE LET converted ==
                                     CASE o = "ok" -> Write(wavWritten, "out", 0, "data")
                                       [] o = "fail_partial" -> Write(wavWritten, "out", 0, "partial")
                                       [] OTHER -> wavWritten
                                 final == IF o = "ok" THEN "out" ELSE "wav"
                             IN  /\ disk' = Remove(converted, "wav", 0)
                                 /\ result' = IF Exists(disk', final, 0) /\ Size(disk', final, 0) > 0
                                              THEN Returned(TRUE, final)
                                              ELSE Returned(FALSE, None)
                                 /\ pc' = "done"
                                 /\ UNCHANGED <<backend, started, idx, segments, chatts_context, speaker_embs>>
    /\ UNCHANGED <<tts_service, script, voice_map, out_mp3, dialogue_parts, context,
                   speaker_profiles, speaker_voices, failed>>
    /\ UNCHANGED <<procVars, svcVars>>

\* ---------------------------------------------------- _generate_with_edge_tts
DefaultVoice == "en-US-AriaNeural"

\* Variant of VoiceFor: the assigned voice is used for the first turn only.
VoiceForFirstTurnOnly(speaker) ==
    IF idx = 0 /\ speaker \in DOMAIN speaker_voices THEN speaker_voices[speaker]
    ELSE DefaultVoice

\* speaker_voices.get(speaker, "en-US-AriaNeural")
VoiceFor(speaker) ==
    IF speaker \in DOMAIN speaker_voices THEN speaker_voices[speaker] ELSE DefaultVoice

\* One pass of the loop over the turns: _edge_tts into a fresh temporary file.
edge_turn(o) ==
    /\ pc = "edge_turn"
    /\ idx < Len(dialogue_parts)
    /\ LET k == idx + 1
           speaker == dialogue_parts[k].speaker
           written == EdgeTtsDisk(disk, "tmp", k, o)
       IN  IF EdgeTtsSuccess(written, "tmp", k, o)
           THEN /\ disk' = written
                /\ segments' = Append(segments,
                       [turn |-> k, speaker |-> speaker, by |-> "edge",
                        voice |-> VoiceFor(speaker)])
                /\ idx' = k
                /\ UNCHANGED <<pc, result, failed>>
           ELSE /\ disk' = RemoveTemp(written)
                /\ failed' = failed \cup {[backend |-> "edge", kind |-> o]}
                /\ result' = Returned(FALSE, None)
                /\ pc' = "done"
                /\ UNCHANGED <<segments, idx>>
    /\ UNCHANGED <<tts_service, script, voice_map, out_mp3, dialogue_parts, context,
                   speaker_profiles, speaker_voices, backend, started, chatts_context,
                   speaker_embs, assembled, ran>>
    /\ UNCHANGED <<procVars, svcVars>>

\* The tail of _generate_with_edge_tts: remove the temporary files, then
\* success iff concatenation succeeded and the output is a non-empty file.
EdgeFinish(d, concatenated) ==
    /\ disk' = RemoveTemp(d)
    /\ result' = IF concatenated /\ Exists(d, "out", 0) /\ Size(d, "out", 0) > 0
                 THEN Returned(TRUE, "out") ELSE Returned(FALSE, None)
    /\ pc' = "done"

ConcatOutcomes == {"ok", "ok_empty", "fail", "fail_partial", "timeout"}

\* _concatenate_audio, first attempt: _concatenate_with_ffmpeg (stream copy).
concat_ffmpeg(o) ==
    /\ pc = "edge_turn"
    /\ idx = Len(dialogue_parts)
    /\ assembled' = segments
    /\ ran' = ran \cup {"assemble"}
    /\ LET listed == Write(disk, "list", 0, "data")
           after == CASE o = "ok"           -> Write(listed, "out", 0, "data")
                      [] o = "ok_empty"     -> Write(listed, "out", 0, "empty")
                      [] o = "fail_partial" -> Write(listed, "out", 0, "partial")
                      [] o = "timeout"      -> Write(listed, "out", 0, "partial")
                      [] OTHER              -> listed
           cleaned == IF o = "timeout" THEN after ELSE Remove(after, "list", 0)
           ok == o \in {"ok", "ok_empty"} /\ Exists(cleaned, "out", 0)
       IN  IF ok
           THEN EdgeFinish(cleaned, TRUE)
           ELSE /\ disk' = cleaned
                /\ pc' = "concat_pydub"
                /\ result' = result
    /\ UNCHANGED <<tts_service, script, voice_map, out_mp3, dialogue_parts, context,
                   speaker_profiles, speaker_voices, backend, started, chatts_context,
                   speaker_embs, idx, segments, failed>>
    /\ UNCHANGED <<procVars, svcVars>>

PydubOutcomes == {"ok", "import_error", "error"}

\* _concatenate_audio, second attempt: _concatenate_with_pydub (re-encode).
concat_pydub(o) ==
    /\ pc = "concat_pydub"
    /\ IF o = "ok"
       THEN EdgeFinish(Write(disk, "out", 0, "data"), TRUE)
       ELSE EdgeFinish(disk, FALSE)
    /\ UNCHANGED <<tts_service, script, voice_map, out_mp3, dialogue_parts, context,
                   speaker_profiles, speaker_voices, backend, started, chatts_context,
                   speaker_embs, idx, segments, assembled, failed, ran>>
    /\ UNCHANGED <<procVars, svcVars>>

\* ------------------------------------------------------------ specification
Next ==
    \/ \E m \in Methods : get_local_tts(m)
    \/ \E s \in Scripts, vm \in VoiceMaps, mp3 \in BOOLEAN : dialogue_to_speech(s, vm, mp3)
    \/ \E o \in EdgeOutcomes : text_to_speech(o)
    \/ \E r \in AIResponses : analyze_and_assign(r)
    \/ \E l \in BOOLEAN, order \in Orders(Speakers(dialogue_parts)) : chatts_load(l, order)
    \/ \E o \in ChattsOutcomes : chatts_infer(o)
    \/ \E o \in FfmpegOutcomes : chatts_save(o)
    \/ \E o \in EdgeOutcomes : edge_turn(o)
    \/ \E o \in ConcatOutcomes : concat_ffmpeg(o)
    \/ \E o \in PydubOutcomes : concat_pydub(o)

Spec == Init /\ [][Next]_vars

\* The job is straight-line code: a step that can be taken is taken.
SpecLive == Spec /\ WF_vars(Next)

\* ------------------------------------- the job up to the voice assignment
\* Longest script, in lines, of the jobs whose analysis is examined.
MaxTurns == 2

\* Lines for the analysis: a label that is none of the table's tokens, the
\* teacher-speaking and the student-referencing phrases, and phrases with
\* keywords of several scenes.
AssignLines ==
    { [mark |-> "M", text |-> "hello"],
      [mark |-> "W", text |-> "hello"],
      [mark |-> "A", text |-> "hello"],
      [mark |-> NoMark, text |-> "hello"],
      [mark |-> "M", text |-> "good morning, class"],
      [mark |-> "W", text |-> "good morning, class"],
      [mark |-> "A", text |-> "good morning, class"],
      [mark |-> "W", text |-> "mr. smith is strict"],
      [mark |-> "W", text |-> "how much is the price"],
      [mark |-> "W", text |-> "mom, i am home"],
      [mark |-> "M", text |-> "i finished my homework"],
      [mark |-> "M", text |-> "open your books"] }

AssignScripts == SeqsUpTo(AssignLines, MaxTurns)

\* Entries of the JSON object of the profiling response.
AssignProfiles ==
    { [age |-> "adult", gender |-> "female", role |-> "teacher", emotion |-> "professional"],
      [age |-> "adult", gender |-> Missing, role |-> "teacher", emotion |-> "casual"],
      [age |-> "adult", gender |-> "male", role |-> "student", emotion |-> "casual"],
      [age |-> "child", gender |-> "male", role |-> "student", emotion |-> "casual"] }

AssignResponses ==
    {Failed} \cup UNION {[S -> AssignProfiles] : S \in (SUBSET Labels) \ {{}}}

NextAssign ==
    \/ get_local_tts("edge_tts")
    \/ \E s \in AssignScripts, vm \in VoiceMaps : dialogue_to_speech(s, vm, TRUE)
    \/ \E r \in AssignResponses : analyze_and_assign(r)

SpecAssign == Init /\ [][NextAssign]_vars

\* ------------------------------------------------------------------ helpers
Range(f) == {f[x] : x \in DOMAIN f}
Finished == result.returned
Assigned == "synthesize" \in ran

\* The voice the precedence of the specification gives a speaker that has no
\* override: by profile when it has one, by the scene rules otherwise.
ResolvedVoice(speaker) ==
    IF speaker \in DOMAIN speaker_profiles
    THEN SPEAKER_VOICES[map_profile_to_voice(speaker_profiles[speaker])]
    ELSE SPEAKER_VOICES[ContextCategories(dialogue_parts, context)[speaker]]

\* C1: once the assignment of a job is made whose override map names one of
\* its speakers, every speaker the map names has the override voice, whether
\* the profiles were accepted or the rules ran, and every other speaker has
\* the voice its profile or the scene rules give it.
C1_OverrideWins ==
    (Assigned /\ DOMAIN voice_map \cap Speakers(dialogue_parts) # {}) =>
        \A s \in Speakers(dialogue_parts) :
            /\ s \in DOMAIN speaker_voices
            /\ speaker_voices[s] = IF s \in DOMAIN voice_map THEN voice_map[s]
                                   ELSE ResolvedVoice(s)

\* The chain of the specification for a service whose probe answered m:
\* ChatTTS before edge-tts, and espeak last when the probe found it.
Chain(m) ==
    CASE m = "chatts_lib" -> <<"chatts", "edge">>
      [] m = "espeak"     -> <<"edge", "espeak">>
      [] OTHER            -> <<"edge">>

HasNextBackend == backend # Chain(tts_service)[Len(Chain(tts_service))]

\* A step in which the backend at work fails on a turn: ChatTTS raises or
\* returns no audio, edge-tts errors, times out or writes an empty file.
TurnFails ==
    \/ \E o \in ChattsOutcomes \ {"ok"} : chatts_infer(o)
    \/ \E o \in EdgeOutcomes \ {"ok"} : edge_turn(o)

\* C2: a failure of the backend at work on any turn is followed by a restart
\* from the first turn on the next backend, with no segment kept, and what
\* is handed to assembly in a job that succeeds comes from one backend.
C2_RestartOnNextBackend ==
    /\ [][(TurnFails /\ HasNextBackend) =>
                       /\ backend' # backend
                       /\ Len(started') = Len(started) + 1
                       /\ idx' = 0
                       /\ segments' = << >>]_vars
    /\ [](Finished /\ result.success =>
             \A i, j \in 1..Len(assembled) : assembled[i].by = assembled[j].by)

C4_FailedOnlyWhenChainExhausted ==
    (Finished /\ ~result.success /\ Assigned) =>
        \A b \in Range(Chain(tts_service)) : b \in Range(started)

\* C5: the segment list handed to assembly has one entry per turn, the k-th
\* rendered from the k-th turn.
C5_OneSegmentPerTurnInOrder ==
    "assemble" \in ran =>
        /\ Len(assembled) = Len(dialogue_parts)
        /\ \A k \in 1..Len(assembled) :
               assembled[k].turn = k /\ assembled[k].speaker = dialogue_parts[k].speaker

\* C6: a completed voice assignment has an entry for every speaker of the
\* turns, on the override path, the profile path and the rule path alike.
C6_AssignmentTotal ==
    Assigned => Speakers(dialogue_parts) \subseteq DOMAIN speaker_voices

\* C7: the segments a backend has rendered give one voice to one speaker, the
\* edge-tts voice being the one the assignment resolves, and the assignment
\* is never changed once synthesis has started.
C7_SameVoiceInv ==
    /\ \A i, j \in 1..Len(segments) :
           segments[i].speaker = segments[j].speaker => segments[i].voice = segments[j].voice
    /\ \A i, j \in 1..Len(assembled) :
           assembled[i].speaker = assembled[j].speaker => assembled[i].voice = assembled[j].voice
    /\ \A i \in 1..Len(segments) :
           /\ segments[i].speaker = dialogue_parts[segments[i].turn].speaker
           /\ segments[i].by = "edge" => segments[i].voice = VoiceFor(segments[i].speaker)

C7_SameVoicePerSpeaker ==
    /\ []C7_SameVoiceInv
    /\ [][started # << >> => speaker_voices' = speaker_voices]_vars

\* A job fell back to edge-tts and rendered one speaker twice.
C7_Witness ==
    /\ started = <<"chatts", "edge">>
    /\ \E i, j \in 1..Len(segments) : i < j /\ segments[i].speaker = segments[j].speaker

\* C8: a job whose script has no turn runs only the plain synthesis: no scene
\* detection, profiling, assignment, backend loop or assembly, and it returns
\* success whenever the probed backend wrote the audio.
C8_EmptyGoesPlain ==
    (pc # "idle" /\ dialogue_parts = << >>) =>
        /\ ran = {"plain"}
        /\ pc \in {"text_to_speech", "done"}
        /\ context = None
        /\ speaker_profiles = NoMap /\ speaker_voices = NoMap
        /\ started = << >> /\ segments = << >> /\ assembled = << >>
        /\ (Finished /\ File("out", 0, "data") \in disk) =>
               (result.success /\ result.output_path = "out")
        /\ (Finished /\ tts_service = "none") => ~result.success

\* A script without markers was rendered by the plain path.
C8_Witness ==
    /\ script # << >> /\ dialogue_parts = << >>
    /\ Finished /\ result.success

\* C9: a job with turns that returns success = false returns no path and
\* leaves no file at its output path.
C9_FailureLeavesNoOutput ==
    (Finished /\ ~result.success /\ dialogue_parts # << >>) =>
        (result.output_path = None /\ ~Exists(disk, "out", 0))

\* C10: when a job has returned, none of its temporary files is left: no
\* per-turn audio, no concat list file, no intermediate WAV.
C10_NoTempLeft ==
    Finished => \A f \in disk : f.kind \notin {"tmp", "list", "wav"}

\* ------------------------------------------------ threads of one process
\* The speakers of a thread's job, as enumerate(speakers) numbers them.
JobSpeakers == <<"M", "W">>

\* get_local_tts, the test "_tts_service is None".
get_local_tts_test(t) ==
    /\ thread_pc[t] = "start"
    /\ thread_pc' = [thread_pc EXCEPT ![t] = IF tts_service = "unset" THEN "construct"
                                              ELSE "job"]
    /\ UNCHANGED <<tts_service, jobVars, svcVars, thread_method, thread_i, thread_embs,
                   detect_calls, load_calls, torch_rng>>

\* LocalTTSService(): __init__ runs the probe _detect_method.
LocalTTSService_init(t, m) ==
    /\ thread_pc[t] = "construct"
    /\ detect_calls' = detect_calls + 1
    /\ thread_method' = [thread_method EXCEPT ![t] = m]
    /\ thread_pc' = [thread_pc EXCEPT ![t] = "assign"]
    /\ UNCHANGED <<tts_service, jobVars, svcVars, thread_i, thread_embs, load_calls, torch_rng>>

\* get_local_tts, the assignment to the global and the return.
get_local_tts_assign(t) ==
    /\ thread_pc[t] = "assign"
    /\ tts_service' = thread_method[t]
    /\ thread_pc' = [thread_pc EXCEPT ![t] = "job"]
    /\ UNCHANGED <<jobVars, svcVars, thread_method, thread_i, thread_embs, detect_calls,
                   load_calls, torch_rng>>

\* The job of the thread: with ChatTTS, _generate_with_chatts builds a Chat
\* and loads the model; an edge-tts job uses neither model nor generator.
chat_load(t, success) ==
    /\ thread_pc[t] = "job"
    /\ IF tts_service = "chatts_lib"
       THEN /\ load_calls' = load_calls + 1
            /\ thread_pc' = [thread_pc EXCEPT ![t] = IF success THEN "seed" ELSE "done"]
       ELSE /\ load_calls' = load_calls
            /\ thread_pc' = [thread_pc EXCEPT ![t] = "done"]
    /\ UNCHANGED <<tts_service, jobVars, svcVars, thread_method, thread_i, thread_embs,
                   detect_calls, torch_rng>>

\* torch.manual_seed(1000 + i * 1000) sets the generator of the process.
torch_manual_seed(t) ==
    /\ thread_pc[t] = "seed"
    /\ torch_rng' = [seed |-> 1000 + thread_i[t] * 1000, draws |-> 0]
    /\ thread_pc' = [thread_pc EXCEPT ![t] = "sample"]
    /\ UNCHANGED <<tts_service, jobVars, svcVars, thread_method, thread_i, thread_embs,
                   detect_calls, load_calls>>

\* chat.sample_random_speaker() draws the embedding from the generator as it
\* is now, and advances it.
sample_random_speaker(t) ==
    /\ thread_pc[t] = "sample"
    /\ thread_embs' = [thread_embs EXCEPT
                          ![t] = (JobSpeakers[thread_i[t] + 1] :> torch_rng) @@ thread_embs[t]]
    /\ torch_rng' = [torch_rng EXCEPT !.draws = torch_rng.draws + 1]
    /\ thread_i' = [thread_i EXCEPT ![t] = thread_i[t] + 1]
    /\ thread_pc' = [thread_pc EXCEPT
                        ![t] = IF thread_i[t] + 1 = Len(JobSpeakers) THEN "done" ELSE "seed"]
    /\ UNCHANGED <<tts_service, jobVars, svcVars, thread_method, detect_calls, load_calls>>

NextProcess ==
    \/ \E t \in Threads : get_local_tts_test(t)
    \/ \E t \in Threads, m \in {"chatts_lib", "edge_tts"} : LocalTTSService_init(t, m)
    \/ \E t \in Threads : get_local_tts_assign(t)
    \/ \E t \in Threads, success \in BOOLEAN : chat_load(t, success)
    \/ \E t \in Threads : torch_manual_seed(t)
    \/ \E t \in Threads : sample_random_speaker(t)

SpecProcess == Init /\ [][NextProcess]_vars

\* ------------------------------------------------------------- the classifier
Classified == "classify" \in ran

\* The scenes, by position in the priority order, whose score reaches their
\* own threshold.
ScenesClearing(text) ==
    {k \in 1..Len(SceneOrder) :
        keyword_count(SceneOrder[k], text) >= (IF SceneOrder[k] = "school" THEN 1 ELSE 2)}

\* C11: the scene of a classified script is the scene of the highest score
\* among those that reach their threshold, the earlier scene of the priority
\* order on equal scores, and it is general exactly when none reaches it.
C11_HighestScoreWins ==
    Classified =>
        LET text == ScriptText(script)
            clearing == ScenesClearing(text)
        IN  IF clearing = {} THEN context = "general"
            ELSE \E k \in clearing :
                    /\ context = SceneOrder[k]
                    /\ \A j \in clearing :
                           \/ keyword_count(SceneOrder[j], text) < keyword_count(SceneOrder[k], text)
                           \/ /\ keyword_count(SceneOrder[j], text) = keyword_count(SceneOrder[k], text)
                              /\ k <= j

\* C12: a classified script with a school keyword and no keyword of another
\* scene is a school script, and one with no keyword of any scene is general.
C12_SchoolOnlyAndNoKeyword ==
    Classified =>
        LET text == ScriptText(script)
            others == {c \in DOMAIN CONTEXT_PATTERNS : c # "school"}
        IN  /\ (/\ keyword_count("school", text) >= 1
                /\ \A c \in others : keyword_count(c, text) = 0) => context = "school"
            /\ (\A c \in DOMAIN CONTEXT_PATTERNS : keyword_count(c, text) = 0)
                   => context = "general"

\* A script whose only keyword is one school keyword was classified, and so
\* was a script without any keyword.
C12_Witness ==
    /\ Classified
    /\ keyword_count("school", ScriptText(script)) = 1
    /\ \A c \in DOMAIN CONTEXT_PATTERNS :
           c # "school" => keyword_count(c, ScriptText(script)) = 0
    /\ context = "school"

\* ------------------------------------------------- the rules of the school scene
\* The assignment of a school job was made on the rule-based path: no
\* profile was accepted.
SchoolRules ==
    /\ "assign" \in ran
    /\ context = "school"
    /\ speaker_profiles = NoMap

YoungCasual == {"M_Young_Casual", "W_Young_Casual"}
AdultProfessional == {"M_Adult_Professional", "W_Adult_Professional"}

\* The turns in which the speaker itself says a teacher-speaking phrase.
TeacherTurns(speaker) ==
    {i \in 1..Len(dialogue_parts) :
        /\ dialogue_parts[i].speaker = speaker
        /\ AnyIn(teacher_speaking_patterns, dialogue_parts[i].text)}

\* The speakers the caller gave no voice of its own.
NotOverridden == Speakers(dialogue_parts) \ DOMAIN voice_map

\* C13: in a school job on the rule-based path whose dialogue has no
\* teacher-speaking phrase, with or without a student-referencing phrase,
\* every speaker the caller did not override has the voice of a
\* young/casual category.
C13_NoTeacherAllYoung ==
    (SchoolRules /\ ~AnyIn(teacher_speaking_patterns, JoinTexts(dialogue_parts, 1))) =>
        \A s \in NotOverridden :
            /\ s \in DOMAIN speaker_voices
            /\ speaker_voices[s] \in {SPEAKER_VOICES[c] : c \in YoungCasual}

\* The same for the jobs whose caller passed no voice map: the rules alone
\* give every speaker a young/casual category and its voice.
SchoolRulesAloneAllYoung ==
    (/\ SchoolRules /\ voice_map = NoMap
     /\ ~AnyIn(teacher_speaking_patterns, JoinTexts(dialogue_parts, 1))) =>
        /\ DOMAIN speaker_voices = Speakers(dialogue_parts)
        /\ \A s \in Speakers(dialogue_parts) :
               /\ SchoolCategories(dialogue_parts)[s] \in YoungCasual
               /\ speaker_voices[s] = SPEAKER_VOICES[SchoolCategories(dialogue_parts)[s]]

\* C14: in a school job on the rule-based path whose dialogue has a
\* teacher-speaking phrase, a speaker the caller did not override has the
\* adult/professional voice of its label exactly when one of its own turns
\* has such a phrase, whichever turn it is, and the young/casual voice of
\* its label otherwise.
C14_TeacherBySpeakersOwnTurns ==
    (SchoolRules /\ AnyIn(teacher_speaking_patterns, JoinTexts(dialogue_parts, 1))) =>
        \A s \in NotOverridden :
            /\ s \in DOMAIN speaker_voices
            /\ speaker_voices[s] = SPEAKER_VOICES[IF TeacherTurns(s) # {}
                                                  THEN TeacherCategory(s)
                                                  ELSE YoungCategory(s)]

\* The same for the jobs whose caller passed no voice map: the category of
\* a speaker is adult/professional exactly when one of its own turns has a
\* teacher-speaking phrase, and young/casual otherwise.
SchoolRulesAloneTeacherByOwnTurns ==
    (/\ SchoolRules /\ voice_map = NoMap
     /\ AnyIn(teacher_speaking_patterns, JoinTexts(dialogue_parts, 1))) =>
        /\ DOMAIN speaker_voices = Speakers(dialogue_parts)
        /\ \A s \in Speakers(dialogue_parts) :
               /\ SchoolCategories(dialogue_parts)[s] \in AdultProfessional
                      <=> TeacherTurns(s) # {}
               /\ TeacherTurns(s) = {} => SchoolCategories(dialogue_parts)[s] \in YoungCasual
               /\ speaker_voices[s] = SPEAKER_VOICES[SchoolCategories(dialogue_parts)[s]]

\* ------------------------------------------------------------- the profiles
ProfilePath == "assign" \in ran /\ speaker_profiles # NoMap

YoungCategories == {"M_Young_Casual", "M_Young_Energetic", "W_Young_Casual", "W_Young_Sweet"}

\* Role tags that name a child or a student.
StudentRoles == {"student", "child"}

\* C15: on the profile path a speaker whose profile has the age group adult
\* or elderly and a child/student role has a young category and its voice.
C15_StudentRoleIsYoung ==
    ProfilePath =>
        \A s \in DOMAIN speaker_profiles :
            (/\ speaker_profiles[s].age \in {"adult", "elderly"}
             /\ speaker_profiles[s].role \in StudentRoles) =>
                /\ map_profile_to_voice(speaker_profiles[s]) \in YoungCategories
                /\ speaker_voices[s] \in {SPEAKER_VOICES[c] : c \in YoungCategories}

\* The entries of a response that have both fields.
Accepted(response) ==
    {s \in DOMAIN response :
        response[s].age # Missing /\ response[s].gender # Missing}

\* C16 (state): the accepted profiles all have an age group and a gender,
\* and the assignment is the profile assignment when profiles were accepted
\* and the rule-based one when none was: it has an entry by a profile for
\* every profiled speaker and no other entry, or no entry by a profile.
C16_ProfilesOrRulesInv ==
    "assign" \in ran =>
        /\ \A s \in DOMAIN speaker_profiles :
               speaker_profiles[s].age # Missing /\ speaker_profiles[s].gender # Missing
        /\ IF speaker_profiles # NoMap
           THEN /\ DOMAIN speaker_voices = DOMAIN speaker_profiles
                /\ \A s \in DOMAIN speaker_voices :
                       speaker_voices[s] =
                           SPEAKER_VOICES[map_profile_to_voice(speaker_profiles[s])]
           ELSE speaker_voices =
                    _assign_voices_by_context(dialogue_parts, context, voice_map).voices

\* C16: a profiling attempt keeps exactly the entries with both fields, a
\* failed attempt or one without such an entry leaves no profile at all,
\* and every assignment is made from the profiles alone or the rules alone.
C16_ProfilesOrRules ==
    /\ []C16_ProfilesOrRulesInv
    /\ [][\A r \in AssignResponses :
              analyze_and_assign(r) =>
                  /\ DOMAIN speaker_profiles' = Accepted(r)
                  /\ \A s \in Accepted(r) : speaker_profiles'[s] = r[s]
                  /\ (r = Failed \/ Accepted(r) = {}) => speaker_profiles' = NoMap]_vars

\* A response was accepted in part: one of the two speakers has a profile,
\* the other has none.
C16_Witness ==
    /\ ProfilePath
    /\ Cardinality(Speakers(dialogue_parts)) = 2
    /\ Cardinality(DOMAIN speaker_profiles \cap Speakers(dialogue_parts)) = 1

\* C17: a step in which the profiling attempt fails does not end the job: the
\* job goes on to synthesis with the assignment the rules give it.
C17_ProfilingFailureNotFatal ==
    [][analyze_and_assign(Failed) =>
           /\ ~result'.returned
           /\ pc' \in {"chatts_load", "edge_turn"}
           /\ "synthesize" \in ran'
           /\ speaker_voices' =
                  _assign_voices_by_context(dialogue_parts, context, voice_map).voices]_vars

\* ------------------------------------------------------------ the embeddings
\* The first turn of a speaker, and the number of speakers that appear
\* before it in the turn list.
FirstTurn(speaker) ==
    CHOOSE i \in 1..Len(dialogue_parts) :
        /\ dialogue_parts[i].speaker = speaker
        /\ \A j \in 1..Len(dialogue_parts) : dialogue_parts[j].speaker = speaker => i <= j

FirstAppearanceIndex(speaker) ==
    Cardinality({s \in Speakers(dialogue_parts) : FirstTurn(s) < FirstTurn(speaker)})

\* C19: once ChatTTS has given out the embeddings, every speaker has one,
\* from the seed 1000 + 1000 * (index of its first appearance), so that one
\* script always gives one speaker-to-seed mapping, and every turn rendered
\* by ChatTTS uses the embedding of its speaker.
C19_SeedByFirstAppearance ==
    speaker_embs # NoMap =>
        /\ DOMAIN speaker_embs = Speakers(dialogue_parts)
        /\ \A s \in Speakers(dialogue_parts) :
               speaker_embs[s] = 1000 + FirstAppearanceIndex(s) * 1000
        /\ \A i \in 1..Len(segments) :
               segments[i].by = "chatts" => segments[i].voice = speaker_embs[segments[i].speaker]

\* ----------------------------------------------------------------- the process
\* C18: whatever the threads do, the capability probe has run at most once
\* and the model has been loaded at most once in the process.
C18_InitializedOnce == detect_calls <= 1 /\ load_calls <= 1

\* C20: the embedding a job has drawn for its k-th speaker is the one it
\* draws when it runs alone: the first draw after its own seed
\* 1000 + (k - 1) * 1000, whatever the other jobs do meanwhile.
C20_JobsIsolated ==
    \A t \in Threads : \A k \in 1..Len(JobSpeakers) :
        JobSpeakers[k] \in DOMAIN thread_embs[t] =>
            thread_embs[t][JobSpeakers[k]] = [seed |-> 1000 + (k - 1) * 1000, draws |-> 0]

\* ------------------------------------------------------------- termination
\* A step in which a subprocess of the backend at work is killed on its
\* timeout: edge-tts on a turn, or ffmpeg converting the audio of ChatTTS.
SubprocessTimesOut ==
    \/ edge_turn("timeout")
    \/ segments # << >> /\ out_mp3 /\ chatts_save("timeout")

\* No backend was started twice.
StartedOnce == \A i, j \in 1..Len(started) : started[i] = started[j] => i = j

\* A job that was begun returns.
Terminates == (pc # "idle") ~> Finished

\* C21: every job that was begun returns; a timeout of a subprocess of the
\* backend at work is a failure of that backend, after which the next
\* backend of the chain is started from the first turn; and no backend is
\* started twice in a job.
C21_TerminatesAndTimeoutFallsBack ==
    /\ Terminates
    /\ []StartedOnce
    /\ [][(SubprocessTimesOut /\ HasNextBackend) =>
              /\ ~result'.returned
              /\ backend' # backend
              /\ Len(started') = Len(started) + 1
              /\ idx' = 0]_vars

\* ------------------------------------------------------------------ quota
\* Days the clock runs through, the most purchased uses a row holds, the
\* most days a subscription is bought for and the most runs of the reset job
\* on one day.
MaxDay == 2
MaxPurchased == 2
MaxSubscriptionDays == 1
MaxResetCalls == 2

notQuota == <<tts_service, jobVars, procVars, aiVars, payVars, histVars>>

\* consume_user_quota: the check on the stored row, then consume_quota, then
\* the result dict.
consume_user_quota(u) ==
    /\ IF ~can_consume_quota(quotas[u], today)
       THEN /\ consume_result' = [user |-> u, success |-> FALSE, consume_type |-> None,
                                   remaining |-> 0]
            /\ UNCHANGED quotas
       ELSE LET r == consume_quota(quotas[u], today, free_daily_limit)
            IN  /\ quotas' = [quotas EXCEPT ![u] = r.quota]
                /\ consume_result' =
                       IF r.success
                       THEN [user |-> u, success |-> TRUE, consume_type |-> r.consume_type,
                             remaining |-> IF r.consume_type # "subscription"
                                           THEN r.remaining ELSE -1]
                       ELSE [user |-> u, success |-> FALSE, consume_type |-> None,
                             remaining |-> 0]
    /\ UNCHANGED <<today, reset_calls, notQuota>>

\* reset_all_daily_quotas that resets every row, whatever its reset date.
reset_all_daily_quotas_every_row ==
    /\ reset_calls < MaxResetCalls
    /\ quotas' = [u \in Users |-> reset_daily_quota(quotas[u], today)]
    /\ reset_calls' = reset_calls + 1
    /\ UNCHANGED <<today, consume_result, notQuota>>

\* reset_all_daily_quotas: the rows whose reset date is not today are reset.
reset_all_daily_quotas ==
    /\ reset_calls < MaxResetCalls
    /\ quotas' = [u \in Users |->
                     IF quotas[u].free_reset_date # today
                     THEN reset_daily_quota(quotas[u], today) ELSE quotas[u]]
    /\ reset_calls' = reset_calls + 1
    /\ UNCHANGED <<today, consume_result, notQuota>>

\* add_quota.
add_quota(u, count) ==
    /\ quotas[u].purchased_count + count <= MaxPurchased
    /\ quotas' = [quotas EXCEPT ![u] = add_purchased_count(@, count)]
    /\ UNCHANGED <<today, consume_result, reset_calls, notQuota>>

\* activate_subscription.
activate_subscription(u, days) ==
    /\ set_subscription(quotas[u], today, days).subscription_expires_at[1] <= MaxDay + 1
    /\ quotas' = [quotas EXCEPT ![u] = set_subscription(@, today, days)]
    /\ UNCHANGED <<today, consume_result, reset_calls, notQuota>>

\* The clock passes midnight.
midnight ==
    /\ today < MaxDay
    /\ today' = today + 1
    /\ reset_calls' = 0
    /\ UNCHANGED <<quotas, consume_result, notQuota>>

\* Every user consumes; u1 also buys packages and monthly cards.
NextQuota ==
    \/ \E u \in Users : consume_user_quota(u)
    \/ reset_all_daily_quotas
    \/ \E count \in 1..MaxPurchased : add_quota("u1", count)
    \/ \E days \in 1..MaxSubscriptionDays : activate_subscription("u1", days)
    \/ midnight

SpecQuota == Init /\ [][NextQuota]_vars


\* C22 (as stated): consume_user_quota takes the subscription first, then a
\* purchased use, then a free use: under an unexpired subscription it returns
\* 'subscription' with remaining -1 and leaves purchased_count and
\* free_used_today as they were; else with a purchased use it lowers
\* purchased_count by one and leaves free_used_today as it was; else it
\* raises free_used_today by one.
C22_PriorityAndFrameAsStated ==
    [][\A u \in Users : consume_user_quota(u) =>
          LET q == quotas[u]
              q2 == quotas'[u]
          IN  IF is_subscriber(q, today)
              THEN /\ consume_result'.consume_type = "subscription"
                   /\ consume_result'.remaining = -1
                   /\ q2.purchased_count = q.purchased_count
                   /\ q2.free_used_today = q.free_used_today
              ELSE IF q.purchased_count > 0
              THEN /\ q2.purchased_count = q.purchased_count - 1
                   /\ q2.free_used_today = q.free_used_today
              ELSE q2.free_used_today = q.free_used_today + 1]_vars

\* free_used_today as the lazy daily reset leaves it: 0 when the reset date
\* of the row is an earlier day.
CountedToday(q) == IF today > q.free_reset_date THEN 0 ELSE q.free_used_today

\* C22: consume_user_quota takes the subscription first, then a purchased
\* use, then a free use, and free_used_today is first set to 0 when the reset
\* date of the row is an earlier day: under an unexpired subscription it
\* returns 'subscription' with remaining -1 and leaves purchased_count as it
\* was; else with a purchased use it lowers purchased_count by one; in both
\* cases free_used_today is otherwise left alone; else, with the stored
\* free_used_today below the daily limit, it raises free_used_today by one
\* and leaves purchased_count as it was.
C22_PriorityAndFrame ==
    [][\A u \in Users : consume_user_quota(u) =>
          LET q == quotas[u]
              q2 == quotas'[u]
          IN  IF is_subscriber(q, today)
              THEN /\ consume_result'.success
                   /\ consume_result'.consume_type = "subscription"
                   /\ consume_result'.remaining = -1
                   /\ q2.purchased_count = q.purchased_count
                   /\ q2.free_used_today = CountedToday(q)
              ELSE IF q.purchased_count > 0
              THEN /\ consume_result'.success
                   /\ consume_result'.consume_type = "purchased"
                   /\ q2.purchased_count = q.purchased_count - 1
                   /\ q2.free_used_today = CountedToday(q)
              ELSE q.free_used_today < free_daily_limit =>
                   /\ consume_result'.success
                   /\ consume_result'.consume_type = "free"
                   /\ q2.purchased_count = q.purchased_count
                   /\ q2.free_used_today = CountedToday(q) + 1]_vars

\* A subscriber with purchased uses has consumed on a later day than the one
\* the row was made on.
C22_Witness ==
    /\ consume_result.user = "u1"
    /\ consume_result.consume_type = "subscription"
    /\ quotas["u1"].purchased_count > 0
    /\ is_subscriber(quotas["u1"], today)
    /\ today > 0
    /\ quotas["u1"].free_reset_date = today


\* C24: a run of reset_all_daily_quotas sets free_used_today to 0 and the
\* reset date to today in the rows whose reset date is not today and leaves
\* every other row as it was, and a run that is not the first of its day
\* leaves free_used_today of every row as it was.
C24_ResetOncePerDay ==
    [][reset_all_daily_quotas =>
          /\ \A u \in Users :
                 IF quotas[u].free_reset_date # today
                 THEN /\ quotas'[u].free_used_today = 0
                      /\ quotas'[u].free_reset_date = today
                 ELSE quotas'[u] = quotas[u]
          /\ reset_calls >= 1 =>
                 \A u \in Users : quotas'[u].free_used_today = quotas[u].free_used_today]_vars

\* The job has run twice on a later day and a free use counted between or
\* after the runs is still counted.
C24_Witness ==
    /\ today > 0
    /\ reset_calls >= 2
    /\ \E u \in Users : /\ quotas[u].free_used_today > 0
                         /\ quotas[u].free_reset_date = today


\* The row of a free user who used up an earlier day.
UsedUpEarlierDay(q) ==
    /\ ~is_subscriber(q, today)
    /\ q.purchased_count = 0
    /\ q.free_used_today = free_daily_limit
    /\ today > q.free_reset_date

\* C30: a consume_user_quota of a user without subscription and purchased
\* uses, whose free_used_today is at the daily limit and whose reset date is
\* an earlier day, succeeds with the type 'free', whether or not the reset
\* job has run.
C30_LazyResetLetsConsume ==
    [][\A u \in Users :
          (consume_user_quota(u) /\ UsedUpEarlierDay(quotas[u])) =>
              /\ consume_result'.success
              /\ consume_result'.consume_type = "free"]_vars


\* ------------------------------------------------------ question generation
\* The largest max_retries a caller passes.
MaxRetries == 3

\* What one call of client.chat.completions.create gives: an exception, or
\* a response whose content is a JSON object with "questions", with
\* "passages" or with neither, a JSON array, a JSON string, a JSON number,
\* true, false or null ("scalar"), text that json.loads rejects until the
\* repair of lines 158-160 ("repairable"), or text it rejects all the same.
ClientOutcomes ==
    {"api_error", "questions", "passages", "object", "array", "string", "scalar",
     "repairable", "garbage"}

\* json.loads(content) does not raise.
Parses(response) ==
    response \in {"questions", "passages", "object", "array", "string", "scalar"}

\* "questions" in result and "passages" in result are defined: result is a
\* dict, a list or a str.
IsContainer(response) == response \in {"questions", "passages", "object", "array", "string"}

\* What the attempt numbered attempt (from 0) of max_retries comes to.
AttemptOutcome(response, attempt, max_retries) ==
    LET last == attempt = max_retries - 1
        except_Exception == IF last THEN "raise" ELSE "next"
    IN  IF response = "api_error" THEN except_Exception
        ELSE IF Parses(response)
        THEN IF IsContainer(response) THEN "return" ELSE except_Exception
        ELSE IF ~last
        THEN IF response = "repairable" THEN "return" ELSE "next"
        ELSE except_Exception

notAI == <<tts_service, jobVars, procVars, quotaVars, payVars, histVars>>

\* _call_ai is entered; range(0) is empty and the call returns [] at once.
_call_ai(max_retries) ==
    /\ ai_pc = "idle"
    /\ ai_max_retries' = max_retries
    /\ ai_pc' = IF max_retries = 0 THEN "returned" ELSE "calling"
    /\ ai_result' = IF max_retries = 0 THEN "empty" ELSE None
    /\ UNCHANGED <<ai_responses, notAI>>

\* One pass of the loop: the client is called and its outcome handled.
_call_ai_attempt(response) ==
    /\ ai_pc = "calling"
    /\ LET outcome == AttemptOutcome(response, Len(ai_responses), ai_max_retries)
       IN  /\ ai_responses' = Append(ai_responses, response)
           /\ ai_pc' = CASE outcome = "return" -> "returned"
                          [] outcome = "raise" -> "raised"
                          [] OTHER -> "calling"
           /\ ai_result' = IF outcome = "return" THEN response ELSE None
    /\ UNCHANGED <<ai_max_retries, notAI>>

NextAI ==
    \/ \E max_retries \in 0..MaxRetries : _call_ai(max_retries)
    \/ \E response \in ClientOutcomes : _call_ai_attempt(response)

SpecAI == Init /\ [][NextAI]_vars

\* C23: in a call with max_retries >= 1 the client is called at most
\* max_retries times; a response that json.loads accepts is the last one
\* asked for and the call returns on it; the call raises only after
\* max_retries calls and is over once they are made.
C23_StopsAtFirstParse ==
    ai_max_retries >= 1 =>
        /\ Len(ai_responses) <= ai_max_retries
        /\ \A i \in 1..Len(ai_responses) :
               Parses(ai_responses[i]) => i = Len(ai_responses) /\ ai_pc = "returned"
        /\ ai_pc = "raised" => Len(ai_responses) = ai_max_retries
        /\ Len(ai_responses) = ai_max_retries => ai_pc \in {"returned", "raised"}


\* ------------------------------------------------ the rules of the other scenes
\* The assignment of a job of another scene than school was made by the
\* rules: no profile was accepted and the caller gave no voice map.
OtherSceneRules ==
    /\ "assign" \in ran
    /\ context # "school"
    /\ speaker_profiles = NoMap
    /\ voice_map = NoMap

\* C25: in a job of a scene other than school the rule-based assignment
\* gives every speaker, whatever its label, a voice of the voice table, and
\* the job goes on to synthesis: the lookup does not end it.
C25_RulesTotalOffSchool ==
    OtherSceneRules =>
        /\ Assigned
        /\ \A speaker \in Speakers(dialogue_parts) :
               /\ speaker \in DOMAIN speaker_voices
               /\ speaker_voices[speaker] \in Range(SPEAKER_VOICES)


\* ------------------------------------------------------------ the parser
\* Scripts with blank lines, lines before the first marker and lines that
\* continue a turn, run on the generative backend.
MaxParseLines == 4

ParseLines ==
    { [mark |-> "M", text |-> "hello"],
      [mark |-> "W", text |-> "hello"],
      [mark |-> NoMark, text |-> "how much is the price"],
      [mark |-> NoMark, text |-> Blank] }

ParseScripts == SeqsUpTo(ParseLines, MaxParseLines)

NextParse ==
    \/ get_local_tts("chatts_lib")
    \/ \E s \in ParseScripts : dialogue_to_speech(s, NoMap, TRUE)
    \/ analyze_and_assign(Failed)
    \/ \E order \in Orders(Speakers(dialogue_parts)) : chatts_load(TRUE, order)

SpecParse == Init /\ [][NextParse]_vars

\* The marker lines of a script, the k-th of them, and the lines that
\* continue the turn a marker line opens.
MarkerLines(lines) == {i \in 1..Len(lines) : lines[i].mark # NoMark}

NthMarker(lines, k) ==
    CHOOSE i \in MarkerLines(lines) :
        Cardinality({j \in MarkerLines(lines) : j < i}) = k - 1

TurnEnd(lines, i) ==
    CHOOSE e \in i..Len(lines) :
        /\ \A j \in (i + 1)..e : lines[j].mark = NoMark
        /\ e = Len(lines) \/ lines[e + 1].mark # NoMark

IsText(line) == line.text # Blank

TurnText(lines, i) ==
    LET following == SelectSeq(SubSeq(lines, i + 1, TurnEnd(lines, i)), IsText)
    IN  <<lines[i].text>> \o [j \in 1..Len(following) |-> following[j].text]

\* C26: the turns of a parsed script are its marker lines in line order: the
\* k-th turn has the label of the k-th marker line and, as its text, the
\* text of that line followed by the non-blank lines up to the next marker
\* line; a script without a marker line has no turn.
C26_TurnsAreMarkerLines ==
    pc # "idle" =>
        /\ Len(dialogue_parts) = Cardinality(MarkerLines(script))
        /\ \A k \in 1..Len(dialogue_parts) :
               LET i == NthMarker(script, k)
               IN  /\ dialogue_parts[k].speaker = script[i].mark
                   /\ dialogue_parts[k].text = TurnText(script, i)

\* A parsed script with text before the first marker, a blank line and a
\* turn that runs over two lines.
C26_Witness ==
    /\ pc # "idle"
    /\ Len(script) = MaxParseLines
    /\ script[1].mark = NoMark
    /\ \E i \in 1..Len(script) : ~IsText(script[i])
    /\ \E k \in 1..Len(dialogue_parts) : Len(dialogue_parts[k].text) = 2

\* C27: in a job on the generative backend the scene that sets the decoding
\* parameters is the scene the voices were assigned for.
C27_OneSceneInJob ==
    chatts_context # None => chatts_context = context


\* ---------------------------------------------------------------- payment
notPay == <<tts_service, jobVars, procVars, aiVars, histVars, today, consume_result,
            reset_calls>>

\* process_payment_success, steps 1 and 2: the order is read in the session
\* of the request; a paid order ends the call.
process_payment_success_select(c, order_no) ==
    /\ pay_pc[c] = NoCall
    /\ pay_pc' = [pay_pc EXCEPT ![c] =
                     IF orders[order_no].status = "paid"
                     THEN NoCall
                     ELSE [at |-> "credit", order_no |-> order_no]]
    /\ UNCHANGED <<orders, credited, quotas, notPay>>

\* The credit of an order of the given type on a quotas row.
Credit(quota, order_type, now) ==
    IF order_type = "package"
    THEN [quota EXCEPT !.purchased_count = @ + PACKAGE_COUNT]
    ELSE [quota EXCEPT !.subscription_expires_at =
             IF is_subscriber(quota, now) THEN At(@[1] + MONTHLY_DAYS)
             ELSE At(now + MONTHLY_DAYS)]

\* process_payment_success, steps 3 and 4: the order is marked paid, the
\* quotas row is read and credited, and both are committed.
process_payment_success_commit(c) ==
    /\ pay_pc[c].at = "credit"
    /\ LET order_no == pay_pc[c].order_no
           order == orders[order_no]
       IN  /\ orders' = [orders EXCEPT ![order_no].status = "paid"]
           /\ quotas' = [quotas EXCEPT ![order.user_id] = Credit(@, order.type, today)]
           /\ credited' = [credited EXCEPT ![order_no] = @ + 1]
    /\ pay_pc' = [pay_pc EXCEPT ![c] = NoCall]
    /\ UNCHANGED notPay

NextPay ==
    \/ \E c \in Callers, order_no \in OrderNos : process_payment_success_select(c, order_no)
    \/ \E c \in Callers : process_payment_success_commit(c)

SpecPay == Init /\ [][NextPay]_vars

\* C28: whatever calls of process_payment_success are made for an order and
\* however they interleave, its credit is applied at most once, and an order
\* that is paid has had its credit applied.
C28_CreditedOncePaidOnlyIfCredited ==
    \A order_no \in OrderNos :
        /\ credited[order_no] <= 1
        /\ orders[order_no].status = "paid" => credited[order_no] >= 1

\* ----------------------------------------------------- generation history
\* The most rows the table gets.
MaxRows == 5

notHist == <<tts_service, jobVars, procVars, quotaVars, aiVars, payVars>>

\* The ids of the rows of a homework.
RowsOf(rows, homework_id) == {i \in DOMAIN rows : rows[i].homework_id = homework_id}

\* The id of the row .order_by(version.desc()).first() gives, 0 for None.
Latest(rows, homework_id) ==
    IF RowsOf(rows, homework_id) = {} THEN 0
    ELSE CHOOSE i \in RowsOf(rows, homework_id) :
             \A j \in RowsOf(rows, homework_id) : rows[j].version <= rows[i].version

\* create_generation_history: the latest row of the homework is marked
\* inactive when it is active, and the new row is added as the active one.
create_generation_history(homework_id) ==
    /\ Len(history) < MaxRows
    /\ LET latest == Latest(history, homework_id)
           next_version == IF latest # 0 THEN history[latest].version + 1 ELSE 1
           marked == IF latest # 0 /\ history[latest].is_active
                     THEN [history EXCEPT ![latest].is_active = FALSE]
                     ELSE history
       IN  history' = Append(marked, [homework_id |-> homework_id,
                                      version |-> next_version, is_active |-> TRUE])
    /\ last_call' = [last_call EXCEPT ![homework_id] = Len(history')]
    /\ UNCHANGED notHist

\* set_active_generation: the other active rows of the homework of the row
\* are marked inactive and the row is marked active.
set_active_generation(history_id) ==
    /\ history_id \in DOMAIN history
    /\ LET homework_id == history[history_id].homework_id
       IN  /\ history' = [i \in DOMAIN history |->
                             IF i = history_id
                             THEN [history[i] EXCEPT !.is_active = TRUE]
                             ELSE IF history[i].homework_id = homework_id
                                     /\ history[i].is_active
                             THEN [history[i] EXCEPT !.is_active = FALSE]
                             ELSE history[i]]
           /\ last_call' = [last_call EXCEPT ![homework_id] = history_id]
    /\ UNCHANGED notHist

NextHistory ==
    \/ \E homework_id \in Homeworks : create_generation_history(homework_id)
    \/ \E history_id \in 1..MaxRows : set_active_generation(history_id)

SpecHistory == Init /\ [][NextHistory]_vars

\* C29: after any calls of create_generation_history and
\* set_active_generation on a homework, the rows of the homework with
\* is_active = true are at most one, and it is the row the last call on the
\* homework created or selected.
C29_OneActiveRow ==
    \A i \in DOMAIN history :
        history[i].is_active => i = last_call[history[i].homework_id]

====
